---- MODULE Spec2Model ----
(***************************************************************************)
(* Model of the OpenSCAD C bridge (src/src/io/export_cbridge.cc): the      *)
(* process-wide flags g_initialized and g_cancelled, openscad_init,        *)
(* openscad_render with its console capture, cancellation checkpoints and  *)
(* exit paths, openscad_cancel, the mesh extractor extractMeshData, the    *)
(* heap of render results, their accessors and openscad_result_free.       *)
(***************************************************************************)
EXTENDS Integers, Sequences, FiniteSets, TLC

(* ------------------------------ bounds -------------------------------- *)
\* most vertices of a polygon mesh handed to the extractor
MaxVerts == 4
\* most faces of a polygon mesh
MaxFaces == 2
\* most vertex indices of one face
MaxFaceLen == 4
\* most bytes written to the diagnostic sinks during one render call
MaxWrites == 2
\* most times the engine setup body is started in one process
MaxSetupRuns == 2
\* most render results allocated and not yet released at one time
MaxHeld == 2

(* ------------------------------ threads ------------------------------- *)
\* the one thread that calls openscad_render (renders are serialized)
Renderer == "render"
\* threads that call openscad_init explicitly
InitThreads == {"init1", "init2"}
Threads == InitThreads \cup {Renderer}

(* --------------------------- polygon meshes --------------------------- *)
\* vertex i of a polygon mesh: the corners of the unit square in z = 0
\* (every face normal is then along the z axis, so unit normals are exact)
Pt(i) == <<i % 2, (i \div 2) % 2, 0>>

\* the vertex list of a polygon mesh with n vertices
Verts(n) == [i \in 1..n |-> Pt(i - 1)]

\* one face: len vertex indices from index `first` on, consecutive (step 1)
\* or all the same (step 0)
Run(first, len, step) == [j \in 1..len |-> first + step * (j - 1)]

\* the face lists of the meshes the converter hands over: k faces of the
\* same length, face j the consecutive indices from first + j - 1 on (a
\* strip of faces), the strip starting at the first vertex or two before the
\* end. The PolySet type does not bound a face's indices by the vertex count,
\* and the lists include faces that reach past the last vertex
FaceLists == {[j \in 1..k |-> Run(first + j - 1, len, 1)] :
                first \in {0, MaxVerts - 2}, len \in 2..MaxFaceLen, k \in 0..MaxFaces}

\* the polygon meshes the converter can hand over (PolySet: vertices, indices)
Meshes == {[vertices |-> Verts(MaxVerts), indices |-> fl] : fl \in FaceLists}

\* the faces of the meshes handed to the extractor on its own: runs of
\* consecutive indices and triangles of one repeated index, starting at any
\* vertex but the last
ExtractFaces == {Run(first, len, 1) : first \in 0..(MaxVerts - 2), len \in 2..MaxFaceLen}
                  \cup {Run(first, 3, 0) : first \in 0..(MaxVerts - 2)}

\* the non-empty polygon meshes handed to the extractor on its own: every
\* list of at most MaxFaces of those faces
ExtractMeshes == {[vertices |-> Verts(MaxVerts), indices |-> fl] :
                    fl \in UNION {[1..k -> ExtractFaces] : k \in 1..MaxFaces}}

\* no mesh (a null shared_ptr)
NoMesh == [vertices |-> <<>>, indices |-> <<>>, null |-> TRUE]

\* PolySet::isTriangular: every face has exactly three indices
isTriangular(ps) == \A f \in 1..Len(ps.indices) : Len(ps.indices[f]) = 3

\* PolySet::isEmpty: the mesh has no faces
isEmpty(ps) == Len(ps.indices) = 0

\* fan triangulation of one face (faces of fewer than 3 indices vanish)
FanOf(face) == [j \in 1..(IF Len(face) < 3 THEN 0 ELSE Len(face) - 2) |->
                  <<face[1], face[j + 1], face[j + 2]>>]

RECURSIVE FanAll(_, _)
FanAll(faces, k) == IF k = 0 THEN <<>> ELSE FanAll(faces, k - 1) \o FanOf(faces[k])

\* PolySetUtils::tessellate_faces when it yields a mesh
tessellate_faces(ps) == [vertices |-> ps.vertices,
                         indices |-> FanAll(ps.indices, Len(ps.indices))]

(* ---------------------------- vector maths ---------------------------- *)
Sgn(x) == IF x > 0 THEN 1 ELSE IF x < 0 THEN -1 ELSE 0

Sub(a, b) == <<a[1] - b[1], a[2] - b[2], a[3] - b[3]>>

Cross(a, b) == <<a[2] * b[3] - a[3] * b[2],
                 a[3] * b[1] - a[1] * b[3],
                 a[1] * b[2] - a[2] * b[1]>>

\* squared Euclidean length; norm() > 0 iff this is > 0
Norm2(v) == v[1] * v[1] + v[2] * v[2] + v[3] * v[3]

\* v / |v| for an axis-aligned v (the only vectors the meshes above produce)
Normalized(v) == <<Sgn(v[1]), Sgn(v[2]), Sgn(v[3])>>

\* conversion of a face's int index to uint32_t: the value itself when it is
\* not negative; a negative one becomes i + 2^32, above every vertex count,
\* for which the largest integer of the checker stands
ToU32(i) == IF i >= 0 THEN i ELSE 2147483647

(* --------------------------- extractMeshData -------------------------- *)
\* positions after the vertex loop: x, y, z of every vertex, interleaved
CopyPositions(ps) == [j \in 1..(3 * Len(ps.vertices)) |->
                        ps.vertices[((j - 1) \div 3) + 1][((j - 1) % 3) + 1]]

\* normals after the vertex loop: three zeros per vertex
ZeroNormals(ps) == [j \in 1..(3 * Len(ps.vertices)) |-> 0]

\* the bounds check that guards the normal computation of one face
FaceInRange(i0, i1, i2, vertexCount) ==
    i0 < vertexCount /\ i1 < vertexCount /\ i2 < vertexCount

\* the unit normal of the face (i0, i1, i2), or the zero vector when the
\* cross product has zero length
FaceNormal_DefaultUp(ps, i0, i1, i2) ==
    LET v0 == ps.vertices[i0 + 1]
        v1 == ps.vertices[i1 + 1]
        v2 == ps.vertices[i2 + 1]
        normal == Cross(Sub(v1, v0), Sub(v2, v0))
    IN IF Norm2(normal) > 0 THEN Normalized(normal) ELSE <<0, 0, 1>>

FaceNormal(ps, i0, i1, i2) ==
    LET v0 == ps.vertices[i0 + 1]
        v1 == ps.vertices[i1 + 1]
        v2 == ps.vertices[i2 + 1]
        normal == Cross(Sub(v1, v0), Sub(v2, v0))
    IN IF Norm2(normal) > 0 THEN Normalized(normal) ELSE <<0, 0, 0>>

\* normals[idx*3 + 0..2] += n
AddAt(normals, idx, n) ==
    [j \in 1..Len(normals) |->
        IF (j - 1) \div 3 = idx THEN normals[j] + n[((j - 1) % 3) + 1] ELSE normals[j]]

\* the indices a face appends to the result: its first three, unchecked
EmitFace_Flipped(i0, i1, i2, vertexCount) == <<i0, i2, i1>>

EmitFace(i0, i1, i2, vertexCount) == <<i0, i1, i2>>

\* one iteration of the face loop on the state st = [indices, normals]
FaceStep(ps, st, face) ==
    IF Len(face) < 3 THEN st
    ELSE LET i0 == ToU32(face[1])
             i1 == ToU32(face[2])
             i2 == ToU32(face[3])
             vertexCount == Len(ps.vertices)
             n == IF FaceInRange(i0, i1, i2, vertexCount)
                  THEN FaceNormal(ps, i0, i1, i2) ELSE <<0, 0, 0>>
         IN [indices |-> st.indices \o EmitFace(i0, i1, i2, vertexCount),
             normals |-> IF FaceInRange(i0, i1, i2, vertexCount)
                         THEN AddAt(AddAt(AddAt(st.normals, i0, n), i1, n), i2, n)
                         ELSE st.normals]

\* the face loop run over the first k faces
RECURSIVE FaceLoop(_, _)
FaceLoop(ps, k) ==
    IF k = 0 THEN [indices |-> <<>>, normals |-> ZeroNormals(ps)]
    ELSE FaceStep(ps, FaceLoop(ps, k - 1), ps.indices[k])

\* the final loop: normalize each accumulated normal, default (0,0,1)
NormalizeAll_NoDefault(normals) ==
    [j \in 1..Len(normals) |->
        LET base == 3 * ((j - 1) \div 3)
            acc == <<normals[base + 1], normals[base + 2], normals[base + 3]>>
        IN Normalized(acc)[((j - 1) % 3) + 1]]

NormalizeAll(normals) ==
    [j \in 1..Len(normals) |->
        LET base == 3 * ((j - 1) \div 3)
            acc == <<normals[base + 1], normals[base + 2], normals[base + 3]>>
        IN IF Norm2(acc) > 0 THEN Normalized(acc)[((j - 1) % 3) + 1]
           ELSE <<0, 0, 1>>[((j - 1) % 3) + 1]]

\* the mesh the extractor works on: the tessellation when the input is not
\* triangular and tessellation yields a mesh (tessOk), else the input itself
ChoosePs_FailsOnNull(polyset, tessOk) ==
    IF isTriangular(polyset) THEN polyset
    ELSE IF tessOk THEN tessellate_faces(polyset)
    ELSE [vertices |-> <<>>, indices |-> <<>>]

ChoosePs(polyset, tessOk) ==
    IF ~isTriangular(polyset) /\ tessOk THEN tessellate_faces(polyset) ELSE polyset

\* what lines 90-97 did: nothing for a triangular input ("none"), replaced
\* it by its tessellation ("ok"), or kept it as tessellation yielded no mesh
TessOutcome(polyset, tessOk) ==
    IF isTriangular(polyset) THEN "none" ELSE IF tessOk THEN "ok" ELSE "null"

\* extractMeshData run to completion on result r
extractMeshData(polyset, tessOk, r) ==
    LET ps == ChoosePs(polyset, tessOk)
        fl == FaceLoop(ps, Len(ps.indices))
    IN [r EXCEPT !.positions = CopyPositions(ps),
                 !.normals = NormalizeAll(fl.normals),
                 !.indices = fl.indices,
                 !.vertex_count = Len(ps.vertices),
                 !.triangle_count = Len(fl.indices) \div 3]

\* extractMeshData interrupted by a fault (std::bad_alloc) raised by the
\* push_back of face k + 1 (0-based k faces done): positions and normals are
\* filled, indices hold the faces done so far, the counts are not yet set
extractMeshDataFaulted(polyset, tessOk, k, r) ==
    LET ps == ChoosePs(polyset, tessOk)
        fl == FaceLoop(ps, k)
    IN [r EXCEPT !.positions = CopyPositions(ps),
                 !.normals = fl.normals,
                 !.indices = fl.indices]

(* ------------------------------- state -------------------------------- *)
VARIABLES
    g_initialized,   \* static std::atomic<bool> g_initialized
    g_cancelled,     \* static std::atomic<bool> g_cancelled
    cout,            \* the buffer std::cout writes to
    cerr,            \* the buffer std::cerr writes to
    pc,              \* where each thread is in openscad_init / openscad_render
    initRet,         \* what each thread's last openscad_init call returned
    heap,            \* the OpenSCADRenderResult objects allocated and not deleted,
                     \*          by handle (the pointer openscad_render returns)
    cur,             \* openscad_render's local result: a handle into heap
    got,             \* what the caller's last read of each handle returned
    old_cout,        \* openscad_render's local old_cout
    old_cerr,        \* openscad_render's local old_cerr
    captured,        \* CaptureBuffer::captured of the render's capture
    source_file,     \* openscad_render's local source_file: "null" or "tree"
    polyset,         \* openscad_render's local polyset
    exitPath,        \* the exit path the current render is taking or took
    live,            \* history: intermediate artifacts created and not destroyed
    written,         \* history: bytes written to either sink since render entry
    window,          \* history: bytes written while the capture was in place
                     \*          and the console text was not yet copied out
    fault,           \* history: the fault raised in the current render
    capturedAtFault, \* history: CaptureBuffer::captured when the fault was raised
    cancelStage,     \* history: where the render was at the first cancel after its reset
    cancelAtEntry,   \* history: g_cancelled when the render was entered
    setupRuns,       \* history: times the setup body was started
    setupOk,         \* history: times the setup body completed
    flipsUp,         \* history: g_initialized transitions false -> true
    flipsDown,       \* history: g_initialized transitions true -> false
    reentered,       \* history: an openscad_init call began after a setup completed
    stagesRun,       \* history: the steps the current render invoked, in order
    tess             \* history: what the extractor's tessellation yielded

flags == <<g_initialized, g_cancelled>>
sinks == <<cout, cerr>>
locals == <<old_cout, old_cerr, source_file, polyset>>
console == <<captured, written, window>>
cancelHist == <<cancelStage, cancelAtEntry>>
initHist == <<setupRuns, setupOk, flipsUp, flipsDown, reentered>>
stageHist == <<stagesRun, tess>>
owned == <<heap, cur, got>>
faultHist == <<fault, capturedAtFault>>
vars == <<g_initialized, g_cancelled, cout, cerr, pc, initRet, heap, cur, got,
          old_cout, old_cerr, captured, source_file, polyset, exitPath, live,
          written, window, fault, capturedAtFault, cancelStage, cancelAtEntry,
          setupRuns, setupOk, flipsUp, flipsDown, reentered, stagesRun, tess>>

(* ------------------------------ results ------------------------------- *)
\* new OpenSCADRenderResult() with success, vertex_count, triangle_count set
NewResult == [success |-> FALSE, error_message |-> <<>>, console_output |-> <<>>,
              positions |-> <<>>, normals |-> <<>>, indices |-> <<>>,
              vertex_count |-> 0, triangle_count |-> 0]

\* the null pointer, as a handle
NullHandle == 0

\* the handles operator new can return
Handles == 1..MaxHeld

\* line 199: new OpenSCADRenderResult() returns storage that no object that
\* is allocated and not deleted occupies (the lowest such handle)
NewHandle_Reused == CHOOSE h \in Handles : \A g \in Handles : h <= g

NewHandle == CHOOSE h \in Handles \ DOMAIN heap :
                \A g \in Handles \ DOMAIN heap : h <= g

\* the heap after new OpenSCADRenderResult() at handle h
Allocate(h) == [x \in DOMAIN heap \cup {h} |-> IF x = h THEN NewResult ELSE heap[x]]

\* the heap after delete of the object at handle h
Delete(h) == [x \in DOMAIN heap \ {h} |-> heap[x]]

\* *result, the object openscad_render's local result points to
result == heap[cur]

\* an assignment through openscad_render's local result: *result = r
Store(r) ==
    /\ heap' = [heap EXCEPT ![cur] = r]
    /\ UNCHANGED <<cur, got>>

\* the caller has read nothing yet
NoRead == <<>>

\* error texts; a text is a sequence of pieces, <<>> being the empty string
MsgInit == <<"Failed to initialize OpenSCAD engine">>
MsgParse == <<"Failed to parse OpenSCAD source">>
MsgCancelled == <<"Render cancelled">>
MsgInstantiate == <<"Failed to instantiate module">>
MsgEvaluate == <<"Failed to evaluate geometry">>
MsgNoMesh == <<"Geometry produced no mesh data">>
MsgException(what) == <<"Exception: ", what>>
MsgUnknown == <<"Unknown exception during render">>

\* what() of the std::exception a stage can raise
Whats == {"", "bad_alloc"}
NoFault == [kind |-> "none", what |-> ""]
Faults == {[kind |-> "std", what |-> m] : m \in Whats} \cup {[kind |-> "other", what |-> ""]}

\* the text each early-return block of openscad_render sets
EarlyMsg(path) ==
    CASE path = "parse_failed" -> MsgParse
      [] path \in {"cancelled1", "cancelled2", "cancelled3"} -> MsgCancelled
      [] path = "instantiate_failed" -> MsgInstantiate
      [] path = "evaluate_failed" -> MsgEvaluate
      [] OTHER -> MsgNoMesh

\* artifacts held by shared_ptr / stack objects, destroyed when their scope ends
Scoped == {"root_node", "geometry", "polyset"}

(* ---------------------------- console sinks --------------------------- *)
\* a stage writes nothing, or one byte to std::cout or to std::cerr
WriteChoices == {"none", "cout", "cerr"}

Target(w) == IF w = "cout" THEN cout ELSE cerr

\* CaptureBuffer::overflow
overflow(cap, c) == Append(cap, c)

\* the effect of one optional write of byte b; inWindow tells whether the
\* write falls between the capture's installation and the console copy
Emit(w, b, inWindow) ==
    /\ w = "none" \/ pc[Renderer] = "idle" \/ Len(written) < MaxWrites
    /\ captured' = IF w # "none" /\ Target(w) = "capture" /\ pc[Renderer] # "idle"
                   THEN overflow(captured, b) ELSE captured
    /\ written' = IF w # "none" /\ pc[Renderer] # "idle" THEN Append(written, b) ELSE written
    /\ window' = IF w # "none" /\ inWindow THEN Append(window, b) ELSE window

\* lines 216-218: std::cout.rdbuf(&capture), std::cerr.rdbuf(&capture)
InstallCapture_CoutOnly ==
    /\ old_cout' = cout /\ cout' = "capture"
    /\ old_cerr' = cerr /\ cerr' = cerr

InstallCapture ==
    /\ old_cout' = cout /\ cout' = "capture"
    /\ old_cerr' = cerr /\ cerr' = "capture"

\* std::cout.rdbuf(old_cout); std::cerr.rdbuf(old_cerr) of exit path `path`
RestoreSinks_SkipCancelled(path) ==
    IF path \in {"cancelled1", "cancelled2", "cancelled3"}
    THEN UNCHANGED sinks
    ELSE cout' = old_cout /\ cerr' = old_cerr

RestoreSinks(path) == cout' = old_cout /\ cerr' = old_cerr

\* the renderer's capture is in place and the console text is not yet copied
CaptureWindow == pc[Renderer] \in {"parse", "cp1", "instantiate", "cp2", "evaluate",
                                   "cp3", "convert", "extract", "finish",
                                   "early_return", "catch_std", "catch_other"}

Init ==
    /\ g_initialized = FALSE
    /\ g_cancelled = FALSE
    /\ cout = "sys_cout"
    /\ cerr = "sys_cerr"
    /\ pc = [t \in Threads |-> "idle"]
    /\ initRet = [t \in Threads |-> <<>>]
    /\ heap = <<>>
    /\ cur = NullHandle
    /\ got = NoRead
    /\ old_cout = "sys_cout"
    /\ old_cerr = "sys_cerr"
    /\ captured = <<>>
    /\ source_file = "null"
    /\ polyset = NoMesh
    /\ exitPath = "none"
    /\ live = {}
    /\ written = <<>>
    /\ window = <<>>
    /\ fault = NoFault
    /\ capturedAtFault = <<>>
    /\ cancelStage = "none"
    /\ cancelAtEntry = FALSE
    /\ setupRuns = 0
    /\ setupOk = 0
    /\ flipsUp = 0
    /\ flipsDown = 0
    /\ reentered = FALSE
    /\ stagesRun = <<>>
    /\ tess = "none"

(* ---------------------------- openscad_init --------------------------- *)
\* openscad_init returns ret to thread t: an explicit caller is done, the
\* renderer goes on in openscad_render (lines 209-213)
InitReturn(t, ret) ==
    /\ initRet' = [initRet EXCEPT ![t] = <<ret>>]
    /\ IF t # Renderer
       THEN /\ pc' = [pc EXCEPT ![t] = "idle"]
            /\ UNCHANGED <<owned, exitPath>>
       ELSE IF ret = 0
            THEN /\ pc' = [pc EXCEPT ![t] = "capture"]
                 /\ UNCHANGED <<owned, exitPath>>
            ELSE /\ pc' = [pc EXCEPT ![t] = "idle"]
                 /\ Store([result EXCEPT !.error_message = MsgInit])
                 /\ exitPath' = "init_failed"

\* line 179: what openscad_init returns when the flag was already set
AlreadyInitialized_IsError == 0 - 1

AlreadyInitialized == 0

\* a thread other than the renderer calls openscad_init
InitCall(t) ==
    /\ t \in InitThreads
    /\ pc[t] = "idle"
    /\ pc' = [pc EXCEPT ![t] = "init_enter"]
    /\ UNCHANGED <<flags, sinks, initRet, owned, locals, console, exitPath, live,
                   faultHist, cancelHist, initHist, stageHist>>

\* line 179: if (g_initialized.exchange(true)) return 0;
InitEnter_NoTest(t) ==
    /\ pc[t] = "init_enter"
    /\ setupRuns < MaxSetupRuns
    /\ g_initialized' = TRUE
    /\ pc' = [pc EXCEPT ![t] = "init_setup"]
    /\ setupRuns' = setupRuns + 1
    /\ flipsUp' = IF g_initialized THEN flipsUp ELSE flipsUp + 1
    /\ reentered' = (reentered \/ setupOk >= 1)
    /\ UNCHANGED <<initRet, owned, exitPath, setupOk, flipsDown>>
    /\ UNCHANGED <<g_cancelled, sinks, locals, console, live, faultHist, cancelHist,
                   stageHist>>

InitEnter(t) ==
    /\ pc[t] = "init_enter"
    /\ g_initialized \/ setupRuns < MaxSetupRuns
    /\ g_initialized' = TRUE
    /\ IF g_initialized
       THEN /\ InitReturn(t, AlreadyInitialized)
            /\ UNCHANGED <<setupRuns, setupOk, flipsUp, flipsDown>>
       ELSE /\ pc' = [pc EXCEPT ![t] = "init_setup"]
            /\ setupRuns' = setupRuns + 1
            /\ flipsUp' = flipsUp + 1
            /\ UNCHANGED <<initRet, owned, exitPath, setupOk, flipsDown>>
    /\ reentered' = (reentered \/ setupOk >= 1)
    /\ UNCHANGED <<g_cancelled, sinks, locals, console, live, faultHist, cancelHist,
                   stageHist>>

\* lines 183-189: the setup body (registerApplicationPath, Builtins
\* initialize), which may write to the sinks and may throw
InitSetup(t) ==
    /\ pc[t] = "init_setup"
    /\ \E w \in WriteChoices, ok \in BOOLEAN :
        /\ Emit(w, "init", CaptureWindow)
        /\ IF ok
           THEN /\ InitReturn(t, 0)
                /\ setupOk' = setupOk + 1
           ELSE /\ pc' = [pc EXCEPT ![t] = "init_catch"]
                /\ UNCHANGED <<initRet, owned, exitPath, setupOk>>
    /\ UNCHANGED <<flags, sinks, locals, live, faultHist, cancelHist,
                   setupRuns, flipsUp, flipsDown, reentered, stageHist>>

\* lines 190-193: catch (...) { g_initialized = false; return -1; }
InitCatch(t) ==
    /\ pc[t] = "init_catch"
    /\ g_initialized' = FALSE
    /\ flipsDown' = IF g_initialized THEN flipsDown + 1 ELSE flipsDown
    /\ InitReturn(t, -1)
    /\ UNCHANGED <<g_cancelled, sinks, locals, console, live, faultHist, cancelHist,
                   setupRuns, setupOk, flipsUp, reentered, stageHist>>

(* --------------------------- openscad_cancel -------------------------- *)
\* lines 383-385: g_cancelled = true
openscad_cancel ==
    /\ g_cancelled' = TRUE
    /\ cancelStage' = IF pc[Renderer] # "idle" /\ cancelStage = "none"
                      THEN pc[Renderer] ELSE cancelStage
    /\ UNCHANGED <<g_initialized, sinks, pc, initRet, owned, locals, console, exitPath,
                   live, faultHist, cancelAtEntry, initHist, stageHist>>

(* --------------------------- openscad_render -------------------------- *)
\* line 205: g_cancelled = false
ResetCancelled_Skip == UNCHANGED g_cancelled

ResetCancelled_OnlyFirst == g_cancelled' = IF g_initialized THEN g_cancelled ELSE FALSE

ResetCancelled == g_cancelled' = FALSE

\* lines 199-205: a fresh result, the cancellation flag reset
RenderBegin ==
    /\ pc[Renderer] = "idle"
    /\ Cardinality(DOMAIN heap) < MaxHeld
    /\ cur' = NewHandle
    /\ heap' = Allocate(cur')
    /\ ResetCancelled
    /\ cancelAtEntry' = g_cancelled
    /\ cancelStage' = "none"
    /\ pc' = [pc EXCEPT ![Renderer] = "ensure_init"]
    /\ exitPath' = "none"
    /\ live' = {}
    /\ written' = <<>>
    /\ window' = <<>>
    /\ captured' = <<>>
    /\ source_file' = "null"
    /\ polyset' = NoMesh
    /\ fault' = NoFault
    /\ capturedAtFault' = <<>>
    /\ stagesRun' = <<>>
    /\ tess' = "none"
    /\ UNCHANGED <<g_initialized, sinks, initRet, got, old_cout, old_cerr, initHist>>

\* line 208: if (!g_initialized) openscad_init()
EnsureInit ==
    /\ pc[Renderer] = "ensure_init"
    /\ pc' = [pc EXCEPT ![Renderer] = IF g_initialized THEN "capture" ELSE "init_enter"]
    /\ stagesRun' = IF g_initialized THEN stagesRun ELSE Append(stagesRun, "init")
    /\ UNCHANGED <<flags, sinks, initRet, owned, locals, console, exitPath, live,
                   faultHist, cancelHist, initHist, tess>>

\* lines 216-218: the capture buffer is created and both sinks point to it
Capture ==
    /\ pc[Renderer] = "capture"
    /\ InstallCapture
    /\ pc' = [pc EXCEPT ![Renderer] = "parse"]
    /\ UNCHANGED <<flags, initRet, owned, source_file, polyset, console, exitPath,
                   live, faultHist, cancelHist, initHist, stageHist>>

\* the handler a fault of kind k raised inside the try block reaches
Handler_StdOnly(k) == IF k = "std" THEN "catch_std" ELSE "propagated"

Handler(k) == IF k = "std" THEN "catch_std" ELSE "catch_other"

\* a stage raises fault f: control goes to the handler
Raise(f) ==
    /\ fault' = f
    /\ capturedAtFault' = captured'
    /\ pc' = [pc EXCEPT ![Renderer] = Handler(f.kind)]
    /\ UNCHANGED exitPath

\* a stage fails without a fault: control goes to its early-return block
FailTo(path) ==
    /\ pc' = [pc EXCEPT ![Renderer] = "early_return"]
    /\ exitPath' = path
    /\ UNCHANGED faultHist

\* a stage succeeds: control goes on
GoOn(next) ==
    /\ pc' = [pc EXCEPT ![Renderer] = next]
    /\ UNCHANGED <<exitPath, faultHist>>

\* what parse(source_file, ...) can do: succeed with a tree, fail leaving a
\* tree behind, fail leaving none, or raise a fault
ParseOutcomes == {"ok", "fail_tree", "fail_null", "throw"}

\* lines 222-228: parse(source_file, ...) writing w with outcome o
ParseStep(w, o) ==
    /\ pc[Renderer] = "parse"
    /\ Emit(w, "parse", TRUE)
    /\ CASE o = "ok" -> GoOn("cp1") /\ source_file' = "tree" /\ live' = {"source_file"}
         [] o = "fail_tree" ->
                FailTo("parse_failed") /\ source_file' = "tree" /\ live' = {"source_file"}
         [] o = "fail_null" ->
                FailTo("parse_failed") /\ source_file' = "null" /\ live' = {}
         [] OTHER -> \E f \in Faults : Raise(f) /\ source_file' = "null" /\ live' = {}
    /\ stagesRun' = Append(stagesRun, "parse")
    /\ UNCHANGED <<flags, sinks, initRet, owned, old_cout, old_cerr, polyset,
                   cancelHist, initHist, tess>>

Parse == \E w \in WriteChoices, o \in ParseOutcomes : ParseStep(w, o)

\* the parse of a source text with a syntax error that leaves no tree
ParseInvalid == \E w \in WriteChoices : ParseStep(w, "fail_null")

\* the stage a checkpoint leads to when the flag is clear
AfterCheckpoint_SkipsInstantiate(k) == IF k = 1 THEN "evaluate" ELSE "convert"

AfterCheckpoint(k) == CASE k = 1 -> "instantiate" [] k = 2 -> "evaluate" [] OTHER -> "convert"
CheckpointPc(k) == CASE k = 1 -> "cp1" [] k = 2 -> "cp2" [] OTHER -> "cp3"
CancelledPath(k) == CASE k = 1 -> "cancelled1" [] k = 2 -> "cancelled2" [] OTHER -> "cancelled3"

\* what a checkpoint reads
PollCancelled_Never == FALSE

PollCancelled == g_cancelled

\* lines 237, 272, 298: if (g_cancelled) ...
Checkpoint(k) ==
    /\ pc[Renderer] = CheckpointPc(k)
    /\ IF PollCancelled THEN FailTo(CancelledPath(k)) ELSE GoOn(AfterCheckpoint(k))
    /\ UNCHANGED <<flags, sinks, initRet, owned, locals, console, live,
                   cancelHist, initHist, stageHist>>

\* lines 247-262: source_file->instantiate(...)
Instantiate ==
    /\ pc[Renderer] = "instantiate"
    /\ \E w \in WriteChoices :
        /\ Emit(w, "instantiate", TRUE)
        /\ \/ GoOn("cp2") /\ live' = live \cup {"root_node"}
           \/ FailTo("instantiate_failed") /\ live' = live
           \/ \E f \in Faults : Raise(f) /\ live' = live
    /\ stagesRun' = Append(stagesRun, "instantiate")
    /\ UNCHANGED <<flags, sinks, initRet, owned, locals, cancelHist, initHist, tess>>

\* lines 282-288: evaluator.evaluateGeometry(...)
Evaluate ==
    /\ pc[Renderer] = "evaluate"
    /\ \E w \in WriteChoices :
        /\ Emit(w, "evaluate", TRUE)
        /\ \/ GoOn("cp3") /\ live' = live \cup {"geometry"}
           \/ FailTo("evaluate_failed") /\ live' = live
           \/ \E f \in Faults : Raise(f) /\ live' = live
    /\ stagesRun' = Append(stagesRun, "evaluate")
    /\ UNCHANGED <<flags, sinks, initRet, owned, locals, cancelHist, initHist, tess>>

\* lines 308-310: PolySetUtils::getGeometryAsPolySet(geometry)
Convert ==
    /\ pc[Renderer] = "convert"
    /\ \E w \in WriteChoices :
        /\ Emit(w, "convert", TRUE)
        /\ \/ \E m \in Meshes :
                /\ polyset' = m
                /\ live' = live \cup {"polyset"}
                /\ IF isEmpty(m) THEN FailTo("no_mesh") ELSE GoOn("extract")
           \/ FailTo("no_mesh") /\ polyset' = NoMesh /\ live' = live
           \/ \E f \in Faults : Raise(f) /\ polyset' = NoMesh /\ live' = live
    /\ stagesRun' = Append(stagesRun, "convert")
    /\ UNCHANGED <<flags, sinks, initRet, owned, old_cout, old_cerr, source_file,
                   cancelHist, initHist, tess>>

\* line 320: extractMeshData(*polyset, result), run to completion or cut short
\* by a fault: one raised before anything is stored (tessellate_faces, or a
\* reserve), or std::bad_alloc from the indices.push_back of face k + 1 (a
\* face of at least 3 indices) after k faces
Extract ==
    /\ pc[Renderer] = "extract"
    /\ \E w \in WriteChoices, tessOk \in BOOLEAN :
        /\ Emit(w, "extract", TRUE)
        /\ \/ /\ Store(extractMeshData(polyset, tessOk, result))
              /\ tess' = TessOutcome(polyset, tessOk)
              /\ GoOn("finish")
           \/ \E f \in Faults :
                /\ Store(result)
                /\ tess' = "none"
                /\ Raise(f)
           \/ \E k \in 0..(Len(ChoosePs(polyset, tessOk).indices) - 1) :
                /\ Len(ChoosePs(polyset, tessOk).indices[k + 1]) >= 3
                /\ Store(extractMeshDataFaulted(polyset, tessOk, k, result))
                /\ tess' = TessOutcome(polyset, tessOk)
                /\ Raise([kind |-> "std", what |-> "bad_alloc"])
    /\ stagesRun' = Append(stagesRun, "extract")
    /\ UNCHANGED <<flags, sinks, initRet, locals, live, cancelHist, initHist>>

\* lines 322-326: success, the console text copied out, delete source_file,
\* and the end of the try block's scope
Finish ==
    /\ pc[Renderer] = "finish"
    /\ Store([result EXCEPT !.success = TRUE, !.console_output = captured])
    /\ \E w \in WriteChoices : Emit(w, "teardown", FALSE)
    /\ live' = {}
    /\ exitPath' = "success"
    /\ pc' = [pc EXCEPT ![Renderer] = "tail"]
    /\ UNCHANGED <<flags, sinks, initRet, locals, faultHist, cancelHist, initHist,
                   stageHist>>

\* whether the early-return block of `path` has a delete source_file
DeletesSource(path) == path # "parse_failed"

\* the early-return blocks (lines 229-233, 238-243, 263-268, 273-278,
\* 289-294, 299-304, 311-316): error text, console text, sinks restored,
\* delete source_file except after a failed parse, return
EarlyReturn ==
    /\ pc[Renderer] = "early_return"
    /\ Store([result EXCEPT !.error_message = EarlyMsg(exitPath),
                             !.console_output = captured])
    /\ RestoreSinks(exitPath)
    /\ live' = IF DeletesSource(exitPath) THEN {} ELSE live \ Scoped
    /\ \E w \in WriteChoices :
        /\ w = "none" \/ (live' # live /\ Len(written) < MaxWrites)
        /\ written' = IF w = "none" THEN written ELSE Append(written, "teardown")
    /\ pc' = [pc EXCEPT ![Renderer] = "idle"]
    /\ source_file' = "null"
    /\ polyset' = NoMesh
    /\ UNCHANGED <<flags, initRet, old_cout, old_cerr, captured, window, exitPath,
                   faultHist, cancelHist, initHist, stageHist>>

\* lines 327-333: the two handlers, reached after the try block is unwound
Catch ==
    /\ pc[Renderer] \in {"catch_std", "catch_other"}
    /\ \E w \in WriteChoices :
        /\ w = "none" \/ live \cap Scoped # {}
        /\ Emit(w, "unwind", TRUE)
    /\ Store([result EXCEPT
                !.error_message = IF pc[Renderer] = "catch_std"
                                  THEN MsgException(fault.what) ELSE MsgUnknown,
                !.console_output = captured'])
    /\ live' = live \ Scoped
    /\ exitPath' = "fault"
    /\ pc' = [pc EXCEPT ![Renderer] = "tail"]
    /\ UNCHANGED <<flags, sinks, initRet, locals, faultHist, cancelHist, initHist,
                   stageHist>>

\* lines 335-339: sinks restored, the result returned
RestoreAndReturn ==
    /\ pc[Renderer] = "tail"
    /\ RestoreSinks("tail")
    /\ pc' = [pc EXCEPT ![Renderer] = "idle"]
    /\ source_file' = "null"
    /\ polyset' = NoMesh
    /\ UNCHANGED <<flags, initRet, owned, old_cout, old_cerr, console, exitPath, live,
                   faultHist, cancelHist, initHist, stageHist>>

(* ------------------------- openscad_result_free ----------------------- *)
\* lines 379-381: delete result, for a handle the caller holds (one that
\* openscad_render has returned and that is not yet released)
openscad_result_free(h) ==
    /\ h \in DOMAIN heap
    /\ h # cur \/ pc[Renderer] = "idle"
    /\ heap' = Delete(h)
    /\ UNCHANGED <<flags, sinks, pc, initRet, cur, got, locals, console, exitPath,
                   live, faultHist, cancelHist, initHist, stageHist>>

(* ------------------------------ accessors ----------------------------- *)
\* a handle the caller holds: returned by openscad_render and not released
Held(h) == h \in DOMAIN heap /\ (h # cur \/ pc[Renderer] = "idle")

\* pointers into a result's arrays: nullptr, and data() of a vector
NullPtr == [null |-> TRUE, data |-> <<>>]
DataPtr(a) == [null |-> FALSE, data |-> a]

\* lines 342-344
openscad_result_success(h) == IF h # NullHandle THEN heap[h].success ELSE FALSE

\* lines 346-349
openscad_result_error(h) == IF h = NullHandle THEN <<>> ELSE heap[h].error_message

\* lines 351-354
openscad_result_console(h) == IF h = NullHandle THEN <<>> ELSE heap[h].console_output

\* lines 356-358
openscad_result_vertex_count(h) == IF h # NullHandle THEN heap[h].vertex_count ELSE 0

\* lines 360-362
openscad_result_triangle_count(h) ==
    IF h # NullHandle THEN heap[h].triangle_count ELSE 0

\* lines 364-367
openscad_result_positions_Unchecked(h) ==
    IF h = NullHandle THEN NullPtr ELSE DataPtr(heap[h].positions)

openscad_result_positions(h) ==
    IF h = NullHandle \/ heap[h].positions = <<>> THEN NullPtr
    ELSE DataPtr(heap[h].positions)

\* lines 369-372
openscad_result_normals(h) ==
    IF h = NullHandle \/ heap[h].normals = <<>> THEN NullPtr
    ELSE DataPtr(heap[h].normals)

\* lines 374-377
openscad_result_indices(h) ==
    IF h = NullHandle \/ heap[h].indices = <<>> THEN NullPtr
    ELSE DataPtr(heap[h].indices)

\* the caller calls every accessor on h: a handle it holds, or NULL
ReadResult(h) ==
    /\ h = NullHandle \/ Held(h)
    /\ got' = [x \in DOMAIN got \cup {h} |->
                 IF x # h THEN got[x]
                 ELSE [success |-> openscad_result_success(h),
                       error |-> openscad_result_error(h),
                       console |-> openscad_result_console(h),
                       vertex_count |-> openscad_result_vertex_count(h),
                       triangle_count |-> openscad_result_triangle_count(h),
                       positions |-> openscad_result_positions(h),
                       normals |-> openscad_result_normals(h),
                       indices |-> openscad_result_indices(h)]]
    /\ UNCHANGED <<flags, sinks, pc, initRet, heap, cur, locals, console, exitPath,
                   live, faultHist, cancelHist, initHist, stageHist>>

\* one render at a time, of a caller that releases each result before the
\* next render, with cancel requests from another thread
Next ==
    \/ InitEnter(Renderer)
    \/ InitSetup(Renderer)
    \/ InitCatch(Renderer)
    \/ openscad_cancel
    \/ RenderBegin /\ DOMAIN heap = {}
    \/ \E h \in Handles : openscad_result_free(h)
    \/ EnsureInit
    \/ Capture
    \/ Parse
    \/ \E k \in 1..3 : Checkpoint(k)
    \/ Instantiate
    \/ Evaluate
    \/ Convert
    \/ Extract
    \/ Finish
    \/ EarlyReturn
    \/ Catch
    \/ RestoreAndReturn

Spec == Init /\ [][Next]_vars

\* explicit openscad_init calls of several threads racing with each other and
\* with the implicit call of renders (of a source text that fails to parse)
NextInit ==
    \/ \E t \in InitThreads : InitCall(t)
    \/ \E t \in Threads : InitEnter(t)
    \/ \E t \in Threads : InitSetup(t)
    \/ \E t \in Threads : InitCatch(t)
    \/ RenderBegin /\ DOMAIN heap = {}
    \/ \E h \in Handles : openscad_result_free(h)
    \/ EnsureInit
    \/ Capture
    \/ ParseInvalid
    \/ EarlyReturn

SpecInit == Init /\ [][NextInit]_vars

\* a render that writes nothing to the sinks, whose mesh, if it gets one, is
\* empty or the one triangle (0, 1, 2), and in which no fault is raised but
\* std::bad_alloc
Quiet ==
    /\ written = <<>>
    /\ polyset.indices \in {<<>>, <<Run(0, 3, 1)>>}
    /\ fault \in {NoFault, [kind |-> "std", what |-> "bad_alloc"]}

\* a caller that keeps the results of earlier renders while it renders
\* again and releases them in any order, with openscad_cancel calls from
\* another thread between renders or while one is parsing; openscad_init is
\* called by the renders (again by a later one after a failed setup); the
\* renders are quiet ones
NextOwn ==
    \/ InitEnter(Renderer)
    \/ InitSetup(Renderer) /\ Quiet'
    \/ InitCatch(Renderer)
    \/ openscad_cancel /\ pc[Renderer] \in {"idle", "parse"}
    \/ RenderBegin
    \/ \E h \in Handles : openscad_result_free(h)
    \/ EnsureInit
    \/ Capture
    \/ Parse /\ Quiet'
    \/ \E k \in 1..3 : Checkpoint(k)
    \/ Instantiate /\ Quiet'
    \/ Evaluate /\ Quiet'
    \/ Convert /\ Quiet'
    \/ Extract /\ Quiet'
    \/ Finish /\ Quiet'
    \/ EarlyReturn /\ Quiet'
    \/ Catch /\ Quiet'
    \/ RestoreAndReturn

SpecOwn == Init /\ [][NextOwn]_vars

\* the first render of a process has come to line 320 with a non-empty mesh,
\* nothing written so far and no cancel requested
InitMesh ==
    /\ g_initialized = TRUE
    /\ g_cancelled = FALSE
    /\ cout = "capture"
    /\ cerr = "capture"
    /\ pc = [t \in Threads |-> IF t = Renderer THEN "extract" ELSE "idle"]
    /\ initRet = [t \in Threads |-> IF t = Renderer THEN <<0>> ELSE <<>>]
    /\ heap = <<NewResult>>
    /\ cur = 1
    /\ got = NoRead
    /\ old_cout = "sys_cout"
    /\ old_cerr = "sys_cerr"
    /\ captured = <<>>
    /\ source_file = "tree"
    /\ polyset \in ExtractMeshes
    /\ exitPath = "none"
    /\ live = {"source_file", "root_node", "geometry", "polyset"}
    /\ written = <<>>
    /\ window = <<>>
    /\ fault = NoFault
    /\ capturedAtFault = <<>>
    /\ cancelStage = "none"
    /\ cancelAtEntry = FALSE
    /\ setupRuns = 1
    /\ setupOk = 1
    /\ flipsUp = 1
    /\ flipsDown = 0
    /\ reentered = FALSE
    /\ stagesRun = <<"init", "parse", "instantiate", "evaluate", "convert">>
    /\ tess = "none"

\* the rest of that render, writing nothing, and the caller reading the
\* result it returned
NextMesh ==
    \/ Extract /\ written' = <<>>
    \/ Finish /\ written' = <<>>
    \/ Catch /\ written' = <<>>
    \/ RestoreAndReturn
    \/ \E h \in Handles \cup {NullHandle} : ReadResult(h) /\ pc[Renderer] = "idle"

SpecMesh == InitMesh /\ [][NextMesh]_vars

\* a render call has returned and no later one has begun
Done == pc[Renderer] = "idle" /\ exitPath # "none" /\ cur \in DOMAIN heap

(* ------------------------------- claims ------------------------------- *)
Cancelled == {"cancelled1", "cancelled2", "cancelled3"}

\* where a render is before its first, second and third checkpoint has polled
BeforeCp1 == {"ensure_init", "init_enter", "init_setup", "init_catch", "capture",
              "parse", "cp1"}
BeforeCp2 == {"instantiate", "cp2"}
BeforeCp3 == {"evaluate", "cp3"}
\* where a render is after its third checkpoint and before extractMeshData runs
BeforeExtracting == {"convert", "extract"}

NoMeshData(r) ==
    /\ r.positions = <<>> /\ r.normals = <<>> /\ r.indices = <<>>
    /\ r.vertex_count = 0 /\ r.triangle_count = 0

IsPrefix(a, b) == Len(a) <= Len(b) /\ SubSeq(b, 1, Len(a)) = a

\* C1: every failed result returned by openscad_render has empty positions,
\* normals and indices, zero counts and a non-empty error message, whatever
\* the failure (a fault caught during mesh extraction included).
C1_FailedResultEmpty ==
    (Done /\ ~result.success) => (NoMeshData(result) /\ result.error_message # <<>>)

\* C2: every successful result has positions and normals of length
\* 3 * vertex_count, indices of length 3 * triangle_count, and every index
\* strictly below vertex_count.
C2_SuccessConsistent ==
    (Done /\ result.success) =>
        /\ Len(result.positions) = 3 * result.vertex_count
        /\ Len(result.normals) = 3 * result.vertex_count
        /\ Len(result.indices) = 3 * result.triangle_count
        /\ \A i \in 1..Len(result.indices) : result.indices[i] < result.vertex_count

\* C3 as stated: a render entered with the cancellation flag set (cancel
\* called before the render started) never returns success.
C3_CancelBeforeStart == (Done /\ cancelAtEntry) => ~result.success

\* C3 amended: a cancel made before the render starts is discarded by the
\* reset (without a cancel after the reset the render is never cancelled); a
\* cancel made after the reset and before the first checkpoint yields a
\* Cancelled failure without mesh data unless init or parsing failed first.
C3_CancelAfterReset ==
    /\ (Done /\ cancelStage = "none") => exitPath \notin Cancelled
    /\ (Done /\ cancelStage \in BeforeCp1) =>
          /\ exitPath \in {"init_failed", "parse_failed", "fault", "cancelled1"}
          /\ exitPath = "cancelled1" =>
                (result.error_message = MsgCancelled /\ NoMeshData(result))

C3_Witness == Done /\ cancelAtEntry /\ cancelStage = "none" /\ result.success

C5_CancelOnlyActiveRender ==
    /\ (Done /\ exitPath \in Cancelled) =>
          cancelStage \in BeforeCp1 \cup BeforeCp2 \cup BeforeCp3
    /\ (pc[Renderer] # "idle" /\ cancelStage = "none") => ~g_cancelled

C5_Witness == pc[Renderer] = "cp1" /\ cancelAtEntry /\ ~g_cancelled

\* C6: no fault leaves openscad_render; a render in which a stage raised a
\* fault returns a failed result whose error is "Exception: <what>" for a
\* std::exception and the unknown-exception text otherwise, and whose console
\* text starts with what was captured up to the fault.
C6_FaultsContained ==
    /\ pc[Renderer] # "propagated"
    /\ (Done /\ fault # NoFault) =>
          /\ ~result.success
          /\ result.error_message = IF fault.kind = "std"
                                    THEN MsgException(fault.what) ELSE MsgUnknown
          /\ IsPrefix(capturedAtFault, result.console_output)

C6_Witness == Done /\ fault.kind = "other" /\ capturedAtFault # <<>>

\* C7: whenever no render is running, std::cout and std::cerr point to the
\* buffers they pointed to before the first render, on every exit path.
C7_SinksRestored ==
    pc[Renderer] = "idle" => (cout = "sys_cout" /\ cerr = "sys_cerr")

C7_Witness == Done /\ exitPath \in Cancelled /\ cout = "sys_cout" /\ cerr = "sys_cerr"

\* C8 as stated: the console text of a returned result is exactly the bytes
\* written to either sink between the call's entry and its return.
C8_ConsoleExact == Done => result.console_output = written

\* C8 amended: the console text is exactly the bytes written to either sink
\* between the installation of the capture and the copy of the captured text
\* into the result, in order; it is empty when initialization failed.
C8_ConsoleWindow ==
    Done => result.console_output = IF exitPath = "init_failed" THEN <<>> ELSE window

C8_Witness ==
    Done /\ Len(result.console_output) >= 1 /\ Len(written) > Len(result.console_output)

\* C9: when openscad_render has returned, every intermediate artifact it
\* created (syntax tree, scene graph, geometry, polygon mesh) is destroyed.
C9_ArtifactsDestroyed == Done => live = {}

\* the threads that are inside the setup body or its handler
InSetup == {t \in Threads : pc[t] \in {"init_setup", "init_catch"}}

\* C10 as stated: the setup body is started at most once, and g_initialized
\* goes from false to true once and never back.
C10_SetupOnce == setupRuns <= 1 /\ flipsUp <= 1 /\ flipsDown = 0

\* C10 amended: the setup body is never run by two threads at once and
\* completes at most once; every false -> true transition of g_initialized
\* starts one setup run; the flag goes back to false only when a run fails,
\* and after a completed run it stays true and setup never runs again.
C10_SetupExclusive ==
    /\ Cardinality(InSetup) <= 1
    /\ setupOk <= 1
    /\ flipsUp = setupRuns
    /\ flipsDown = setupRuns - setupOk - Cardinality(InSetup)
    /\ setupOk = 1 => (g_initialized /\ InSetup = {})
    /\ ~g_initialized => InSetup = {}

C10_Witness == setupRuns = 2 /\ setupOk = 1 /\ flipsDown = 1
\* C11: once the engine setup has completed, every openscad_init call (an
\* explicit one or the implicit one of a render) returns 0 in one step,
\* without starting the setup body and without changing g_initialized,
\* g_cancelled, the diagnostic sinks or the number of setup runs
C11_InitIdempotent ==
    [][\A t \in Threads :
          (pc[t] = "init_enter" /\ setupOk >= 1 /\ pc'[t] # pc[t]) =>
              /\ initRet'[t] = <<0>>
              /\ pc'[t] # "init_setup"
              /\ UNCHANGED <<flags, sinks, setupRuns, setupOk, flipsUp, flipsDown>>]_vars

\* a call that began after the one setup run completed has returned
C11_Witness ==
    /\ reentered /\ setupRuns = 1 /\ setupOk = 1 /\ g_initialized
    /\ \E t \in InitThreads : pc[t] = "idle" /\ initRet[t] = <<0>>

\* C12: a result that openscad_render has returned and the caller has not
\* released keeps every field through every step of a later render, of
\* openscad_cancel and of openscad_init; it leaves the heap only by
\* openscad_result_free of its own handle, a step that changes nothing else;
\* and the result a render allocates has a handle no unreleased result has
C12_ResultOwned ==
    [][/\ \A h \in DOMAIN heap :
            Held(h) =>
                IF h \in DOMAIN heap'
                THEN heap'[h] = heap[h]
                ELSE heap' = Delete(h) /\ UNCHANGED <<flags, sinks, pc, cur>>
       /\ (pc[Renderer] = "idle" /\ pc'[Renderer] = "ensure_init") =>
            /\ cur' \notin DOMAIN heap
            /\ DOMAIN heap' = DOMAIN heap \cup {cur'}
            /\ heap'[cur'] = NewResult]_vars

\* a later render has returned a failed result while the successful result
\* of an earlier render, with its mesh data, is still unreleased
C12_Witness ==
    /\ Done /\ ~result.success
    /\ \E h \in DOMAIN heap : h # cur /\ heap[h].success /\ heap[h].indices # <<>>

\* what the three array accessors return for the arrays of result r: NULL
\* for an empty array and a pointer to its data for any other
ArraysAsStored(g, r) ==
    /\ g.positions.null <=> r.positions = <<>>
    /\ g.normals.null <=> r.normals = <<>>
    /\ g.indices.null <=> r.indices = <<>>
    /\ ~g.positions.null => g.positions.data = r.positions
    /\ ~g.normals.null => g.normals.data = r.normals
    /\ ~g.indices.null => g.indices.data = r.indices

\* C13: a read of the NULL handle returns false, two empty texts, two zero
\* counts and three NULL arrays; a read of a result returns a NULL array
\* exactly where the result's array is empty
C13_AccessorsDefined ==
    [][\A h \in DOMAIN got' :
          (h \notin DOMAIN got \/ got'[h] # got[h]) =>
              IF h = NullHandle
              THEN got'[h] = [success |-> FALSE, error |-> <<>>, console |-> <<>>,
                              vertex_count |-> 0, triangle_count |-> 0,
                              positions |-> NullPtr, normals |-> NullPtr,
                              indices |-> NullPtr]
              ELSE ArraysAsStored(got'[h], heap[h])]_vars

\* the caller has read NULL and a successful result whose mesh has vertices
\* but no face of three indices: positions are returned, indices are NULL
C13_Witness ==
    /\ NullHandle \in DOMAIN got
    /\ \E h \in DOMAIN got \ {NullHandle} :
        got[h].success /\ ~got[h].positions.null /\ got[h].indices.null

\* the stages of a render after the engine initialization, in order
Pipeline == <<"parse", "instantiate", "evaluate", "convert", "extract">>

\* the steps a render has invoked, without the engine initialization
StagesOf(run) == IF run # <<>> /\ run[1] = "init" THEN Tail(run) ELSE run

\* the first n stages and nothing else were invoked
RanFirst(n) == StagesOf(stagesRun) = SubSeq(Pipeline, 1, n)

\* the steps invoked so far are the engine initialization, or nothing, and
\* then the first stages in order, each once; a returned result tells where
\* the render stopped: nothing ran after a failed initialization, the stage
\* whose failure is reported was the last one invoked, a cancelled result
\* follows the stages before its checkpoint, a fault follows at least a
\* parse, and only a success follows all five
StagesOk ==
    /\ \E n \in 0..Len(Pipeline) : RanFirst(n)
    /\ Done =>
        CASE exitPath = "init_failed" ->
                stagesRun = <<"init">> /\ result.error_message = MsgInit
          [] exitPath = "parse_failed" ->
                RanFirst(1) /\ result.error_message = MsgParse
          [] exitPath = "cancelled1" ->
                RanFirst(1) /\ result.error_message = MsgCancelled
          [] exitPath = "instantiate_failed" ->
                RanFirst(2) /\ result.error_message = MsgInstantiate
          [] exitPath = "cancelled2" ->
                RanFirst(2) /\ result.error_message = MsgCancelled
          [] exitPath = "evaluate_failed" ->
                RanFirst(3) /\ result.error_message = MsgEvaluate
          [] exitPath = "cancelled3" ->
                RanFirst(3) /\ result.error_message = MsgCancelled
          [] exitPath = "no_mesh" ->
                RanFirst(4) /\ result.error_message = MsgNoMesh
          [] exitPath = "success" -> RanFirst(5) /\ result.success
          [] OTHER ->
                /\ ~RanFirst(0)
                /\ result.error_message \in
                       {MsgException(w) : w \in Whats} \cup {MsgUnknown}

\* C14: in every render the steps are invoked in the order engine
\* initialization, parse, instantiate, evaluate, polygon conversion,
\* extraction, each at most once and only after every earlier one succeeded;
\* the initialization is invoked only when the engine is not initialized; and
\* the error of a failed result is that of the last step invoked
C14_StagesInOrder ==
    [][/\ StagesOk'
       /\ (Len(stagesRun') > Len(stagesRun) /\ stagesRun'[Len(stagesRun')] = "init")
             => (~g_initialized /\ stagesRun = <<>>)
       /\ (pc[Renderer] = "ensure_init" /\ pc'[Renderer] = "capture")
             => (g_initialized /\ stagesRun' = <<>>)]_vars

\* instantiation failed in a render during whose instantiation a cancel was
\* requested: the result reports the failed instantiation
C14_Witness ==
    /\ Done /\ exitPath = "instantiate_failed" /\ cancelStage = "instantiate"
    /\ stagesRun = <<"init", "parse", "instantiate">>
    /\ result.error_message = MsgInstantiate

\* the first three indices of every face of at least three, in face order
RECURSIVE FirstThrees(_, _)
FirstThrees(faces, k) ==
    IF k = 0 THEN <<>>
    ELSE FirstThrees(faces, k - 1) \o
         (IF Len(faces[k]) >= 3
          THEN <<faces[k][1], faces[k][2], faces[k][3]>> ELSE <<>>)

\* how many faces have at least three indices
Triangles(faces) == Cardinality({k \in 1..Len(faces) : Len(faces[k]) >= 3})

\* extraction has run to its end and the render has not yet dropped the mesh
Extracted == pc[Renderer] \in {"finish", "tail"} /\ fault = NoFault

\* C15: when the converted mesh is not triangular and tessellation yields
\* nothing, extraction that no fault cuts short works on the converted mesh
\* itself: vertexCount is its vertex count, the indices are the first three
\* of each of its faces of at least three, and the render goes on to success
C15_TessellationFallback ==
    /\ (Extracted /\ tess = "null") =>
        /\ result.vertex_count = Len(polyset.vertices)
        /\ result.positions = CopyPositions(polyset)
        /\ result.indices = FirstThrees(polyset.indices, Len(polyset.indices))
        /\ result.triangle_count = Triangles(polyset.indices)
        /\ pc[Renderer] = "tail" => result.success /\ exitPath = "success"
    /\ (Done /\ tess = "null" /\ fault = NoFault) =>
        /\ result.success /\ exitPath = "success"
        /\ result.vertex_count = MaxVerts
        /\ result.triangle_count * 3 = Len(result.indices)

\* a render has succeeded on a mesh of two quads that tessellation gave up
\* on: two triangles, the first three indices of each quad
C15_Witness ==
    /\ pc[Renderer] = "tail" /\ tess = "null" /\ exitPath = "success"
    /\ Len(polyset.indices) = 2 /\ Len(polyset.indices[1]) = 4
    /\ result.success /\ result.triangle_count = 2
    /\ result.indices = <<0, 1, 2, 1, 2, 3>>

\* the mesh the face loop of the current render ran over
Ps == ChoosePs(polyset, tess = "ok")

\* x, y, z of the first k vertices, one vertex after the other
RECURSIVE Flat(_, _)
Flat(vertices, k) == IF k = 0 THEN <<>> ELSE Flat(vertices, k - 1) \o vertices[k]

\* C16: after an extraction that no fault cut short, the indices are the
\* first three indices of each face of at least three of the mesh the
\* extractor ran over, in face order and unchanged, faces of fewer than three
\* add nothing, triangle_count is the number of faces of at least three, and
\* positions are the vertices in order
C16_OneTrianglePerFace ==
    Extracted =>
        /\ result.indices = FirstThrees(Ps.indices, Len(Ps.indices))
        /\ result.triangle_count = Triangles(Ps.indices)
        /\ Len(result.indices) = 3 * result.triangle_count
        /\ result.positions = Flat(Ps.vertices, Len(Ps.vertices))
        /\ result.vertex_count = Len(Ps.vertices)

\* extraction ran over a mesh of a face of two indices and a quad: one
\* triangle, the quad's first three indices
C16_Witness ==
    /\ Extracted /\ tess = "null"
    /\ polyset.indices = <<<<0, 1>>, <<0, 1, 2, 3>>>>
    /\ result.indices = <<0, 1, 2>> /\ result.triangle_count = 1
    /\ Len(result.positions) = 3 * MaxVerts /\ result.positions[4] = 1

\* face j of mesh ps has three indices of vertices of the mesh
HasTriangle(ps, j) ==
    /\ Len(ps.indices[j]) >= 3
    /\ \A c \in 1..3 : ps.indices[j][c] >= 0 /\ ps.indices[j][c] < Len(ps.vertices)

\* the cross product of the edge vectors of face j of mesh ps
CrossOf(ps, j) ==
    LET v0 == ps.vertices[ps.indices[j][1] + 1]
        v1 == ps.vertices[ps.indices[j][2] + 1]
        v2 == ps.vertices[ps.indices[j][3] + 1]
    IN Cross(Sub(v1, v0), Sub(v2, v0))

\* face j of mesh ps is degenerate: its cross product has zero length
Degenerate(ps, j) == HasTriangle(ps, j) /\ CrossOf(ps, j) = <<0, 0, 0>>

\* mesh ps with face j removed
Without(ps, j) ==
    [vertices |-> ps.vertices,
     indices |-> [k \in 1..(Len(ps.indices) - 1) |->
                    IF k < j THEN ps.indices[k] ELSE ps.indices[k + 1]]]

\* C17: after an extraction that no fault cut short, for every degenerate
\* face of the mesh the extractor ran over, the face's three indices are
\* among the emitted ones and the normal of every vertex is what extraction
\* of the mesh without that face gives
C17_DegenerateFaceInert ==
    Extracted =>
        \A j \in 1..Len(Ps.indices) :
            Degenerate(Ps, j) =>
                LET without == extractMeshData(Without(Ps, j), FALSE, NewResult)
                IN /\ result.normals = without.normals
                   /\ Len(result.indices) = Len(without.indices) + 3
                   /\ result.triangle_count = without.triangle_count + 1

\* extraction ran over the triangle (1, 2, 3) followed by the degenerate
\* face (1, 1, 1): both are emitted and vertex 1 has the triangle's normal
C17_Witness ==
    /\ Extracted
    /\ polyset.indices = <<<<1, 2, 3>>, <<1, 1, 1>>>>
    /\ Degenerate(Ps, 2) /\ ~Degenerate(Ps, 1)
    /\ result.indices = <<1, 2, 3, 1, 1, 1>>
    /\ SubSeq(result.normals, 4, 6) = <<0, 0, -1>>

\* a + b for vectors
Plus(a, b) == <<a[1] + b[1], a[2] + b[2], a[3] + b[3]>>

\* the sum of the unit normals of the first k faces of mesh ps that are not
\* degenerate and have vertex v among their first three indices
RECURSIVE NormalSum(_, _, _)
NormalSum(ps, v, k) ==
    IF k = 0 THEN <<0, 0, 0>>
    ELSE IF /\ HasTriangle(ps, k) /\ ~Degenerate(ps, k)
            /\ v \in {ps.indices[k][1], ps.indices[k][2], ps.indices[k][3]}
         THEN Plus(NormalSum(ps, v, k - 1), Normalized(CrossOf(ps, k)))
         ELSE NormalSum(ps, v, k - 1)

\* the normal the result holds for vertex v
NormalAt(r, v) == SubSeq(r.normals, 3 * v + 1, 3 * v + 3)

\* C18: after an extraction that no fault cut short, the normal of every
\* vertex is the normalized sum of the unit normals of the non-degenerate
\* faces that have the vertex among their first three indices, or (0, 0, 1)
\* when that sum is the zero vector; none is the zero vector
C18_VertexNormals ==
    Extracted =>
        /\ Len(result.normals) = 3 * Len(Ps.vertices)
        /\ \A v \in 0..(Len(Ps.vertices) - 1) :
            LET sum == NormalSum(Ps, v, Len(Ps.indices))
            IN /\ NormalAt(result, v) =
                      IF sum = <<0, 0, 0>> THEN <<0, 0, 1>> ELSE Normalized(sum)
               /\ NormalAt(result, v) # <<0, 0, 0>>

\* extraction ran over the triangles (0, 1, 2) and (1, 2, 3), which face
\* opposite ways: vertex 3 has the second one's normal, and the normals
\* cancel at the shared vertices 1 and 2, which get (0, 0, 1)
C18_Witness ==
    /\ Extracted
    /\ polyset.indices = <<<<0, 1, 2>>, <<1, 2, 3>>>>
    /\ NormalSum(Ps, 1, 2) = <<0, 0, 0>> /\ NormalSum(Ps, 3, 2) = <<0, 0, -1>>
    /\ NormalAt(result, 1) = <<0, 0, 1>> /\ NormalAt(result, 2) = <<0, 0, 1>>
    /\ NormalAt(result, 3) = <<0, 0, -1>>

\* C19 as stated: a thread that openscad_init has returned 0 to, and a render
\* that has gone past its initialization check towards the parser, find the
\* engine setup completed
C19_InitializedMeansSetUp ==
    /\ \A t \in Threads : initRet[t] = <<0>> => setupOk >= 1
    /\ pc[Renderer] \in {"capture", "parse"} => setupOk >= 1

====
